---- MODULE Spec2Model ----
(***************************************************************************)
(* LanguageSelector (src/src/components/LanguageSelector) and              *)
(* LanguageMorphingTitle (src/unnamed/part_000) as one state machine.      *)
(*                                                                         *)
(* React is modelled as follows.  A state change re-renders at once; an    *)
(* effect whose dependency array differs from the one of its last run is   *)
(* pending and runs as a step of its own (cleanup of the previous run      *)
(* first), before any handler, timer callback or change of locale.  Time   *)
(* is in milliseconds and does not advance past the due time of a pending  *)
(* timer: a timer callback runs at the instant it is due.  The global      *)
(* locale (i18n.language) is written by a collaborator outside this        *)
(* repository, at any moment.                                              *)
(***************************************************************************)
EXTENDS Integers, Sequences, FiniteSets, TLC

\* ------------------------------------------------------------- bounds
\* Date.now() when the widgets mount
StartTime == 5000
\* the longest advance of the clock in one step
TickMs == 500
\* how long after the mount the clock still advances
Horizon == 4000

MaxTime == StartTime + Horizon

\* ------------------------------------------------- program constants
LANGUAGE_CHANGE_COOLDOWN == 3000
MIN_ANIMATION_DURATION == 2500
SETTLE_DELAY == 1000
ANIMATION_MARGIN == 500

\* ------------------------------------------------------------ locales
\* a locale code is a string, kept as the sequence of its characters
en == <<"e", "n">>
es == <<"e", "s">>
esMX == <<"e", "s", "-", "M", "X">>
fr == <<"f", "r">>

Locales == {en, es, esMX, fr}

\* String.prototype.startsWith
startsWith(s, prefix) ==
    /\ Len(s) >= Len(prefix)
    /\ SubSeq(s, 1, Len(prefix)) = prefix

\* a selector that shows es for the locale "es" only
langOfExact(l) == IF l = es THEN es ELSE en

\* i18n.language?.startsWith('es') ? 'es' : 'en'
langOf(l) == IF startsWith(l, es) THEN es ELSE en

\* the catalog entry of translationKey in each locale
Catalog ==
    [l \in Locales |->
        CASE l = en -> "Hello"
          [] l = es -> "Hola"
          [] l = esMX -> "Hola"
          [] l = fr -> "Bonjour"]

\* t(translationKey, { lng })
t(lng) == Catalog[lng]

\* the props (morphTime, cooldownTime) of a title, in quarters of a second
Props == {[morphTime |-> 4, cooldownTime |-> 1], [morphTime |-> 8, cooldownTime |-> 2]}

Max(a, b) == IF a >= b THEN a ELSE b

SetMin(S) == CHOOSE x \in S : \A y \in S : x <= y

\* ------------------------------------------------------------ timers
\* a pending timer of the browser: [id, due]; a handle is its id, 0 is null
NoTimer == 0

\* setTimeout: the id of the new timer
newTimerId(timers) ==
    SetMin({i \in 1..(Cardinality(timers) + 1) : \A tm \in timers : tm.id # i})

\* setTimeout(callback, delay) at time `at`
setTimeout(timers, at, delay) ==
    timers \cup {[id |-> newTimerId(timers), due |-> at + delay]}

\* clearTimeout(handle)
clearTimeout(timers, handle) == {tm \in timers : tm.id # handle}

NoDeps == <<>>

VARIABLES
    now,                  \* Date.now()
    language,             \* i18n.language
    storage,              \* localStorage['i18nextLng']
    events,               \* the initiateLanguageChange events dispatched
    \* LanguageSelector
    lsMounted,
    currentLang,
    isChangingLanguage,
    lastChangeTime,
    lsTimers,             \* pending timers of the sync effect
    lsTimer,              \* `timer` in the closure of the effect's cleanup
    lsDeps,               \* [i18n.language, currentLang] of the effect's last run
    toggleCalls,          \* invocations of toggleLanguage, modulo 2
    \* LanguageMorphingTitle
    lmtMounted,
    props,
    shouldMorph,
    texts,
    previousLanguageRef,
    animationTimeoutRef,
    initializedRef,
    isChangingRef,
    lastChangeTimeRef,
    lmtTimers,            \* pending timers of the title
    lmtDeps,              \* i18n.language (and t) of the effects' last run
    \* PageTransition
    pathname,             \* location.pathname
    views                 \* the keyed PageContainers AnimatePresence renders

globalVars == <<now, language, storage, events>>
lsVars == <<lsMounted, currentLang, isChangingLanguage, lastChangeTime,
            lsTimers, lsTimer, lsDeps, toggleCalls>>
lmtVars == <<lmtMounted, props, shouldMorph, texts, previousLanguageRef,
             animationTimeoutRef, initializedRef, isChangingRef,
             lastChangeTimeRef, lmtTimers, lmtDeps>>
ptVars == <<pathname, views>>
vars == <<globalVars, lsVars, lmtVars, ptVars>>

\* localStorage.getItem of a key never written: no locale code
NoValue == <<>>

\* the state of the two widgets after their first render
Widgets(selector, title) ==
    /\ now = StartTime
    /\ language \in Locales
    /\ storage = NoValue
    /\ events = <<>>
    /\ lsMounted = selector
    /\ currentLang = langOf(language)
    /\ isChangingLanguage = FALSE
    /\ lastChangeTime = 0
    /\ lsTimers = {}
    /\ lsTimer = NoTimer
    /\ lsDeps = NoDeps
    /\ toggleCalls = 0
    /\ lmtMounted = title
    /\ props \in Props
    /\ shouldMorph = FALSE
    /\ texts = <<"", "">>
    /\ previousLanguageRef = language
    /\ animationTimeoutRef = NoTimer
    /\ initializedRef = FALSE
    /\ isChangingRef = FALSE
    /\ lastChangeTimeRef = 0
    /\ lmtTimers = {}
    /\ lmtDeps = NoDeps

\* the routes of the page
Paths == {"/a", "/b", "/c"}

\* the state after the first render of the widgets, outside a PageTransition
Mounted(selector, title) ==
    /\ Widgets(selector, title)
    /\ pathname = "/a"
    /\ views = {}

\* a page with both widgets
Init == Mounted(TRUE, TRUE)

\* a page with the selector only
InitLS == Mounted(TRUE, FALSE)

\* a page with the title only
InitLMT == Mounted(FALSE, TRUE)

\* ---------------------------------------------------------- effects
\* a sync effect whose deps are [i18n.language] alone
lsEffectPendingLanguageOnly ==
    lsMounted /\ (IF lsDeps = NoDeps THEN TRUE ELSE lsDeps[1] # language)

\* the selector's sync effect is to run: first render, or its deps changed
lsEffectPending == lsMounted /\ lsDeps # <<language, currentLang>>

\* the title's effects are to run: first render, or i18n.language (and t) changed
lmtEffectsPending == lmtMounted /\ lmtDeps # language

\* no effect is left to run
effectsFlushed == ~lsEffectPending /\ ~lmtEffectsPending

\* ------------------------------------------------- LanguageSelector

\* the guard of toggleLanguage without its cooldown test
toggleRejectedWhileChangingOnly == isChangingLanguage

\* the guard of toggleLanguage without its isChangingLanguage test
toggleRejectedInCooldownOnly == now - lastChangeTime < LANGUAGE_CHANGE_COOLDOWN

\* the guard of toggleLanguage: the call is dropped
toggleRejected ==
    isChangingLanguage \/ now - lastChangeTime < LANGUAGE_CHANGE_COOLDOWN

\* a toggle that always targets 'es'
otherLangAlwaysEs(l) == es

\* currentLang === 'en' ? 'es' : 'en'
otherLang(l) == IF l = en THEN es ELSE en

\* a toggle that also writes the new language to i18n
localeAfterToggleChanged == otherLang(currentLang)

\* i18n.language after an accepted toggle: toggleLanguage does not write it
localeAfterToggle == language

\* onClick={toggleLanguage}
toggleLanguage ==
    /\ lsMounted
    /\ effectsFlushed
    /\ toggleCalls' = (toggleCalls + 1) % 2
    /\ IF toggleRejected
       THEN UNCHANGED <<isChangingLanguage, lastChangeTime, events, currentLang,
                        language>>
       ELSE /\ isChangingLanguage' = TRUE
            /\ language' = localeAfterToggle
            /\ lastChangeTime' = now
            /\ events' = Append(events,
                   [previousLanguage |-> currentLang,
                    newLanguage |-> otherLang(currentLang)])
            /\ currentLang' = otherLang(currentLang)
    /\ UNCHANGED <<now, storage, lsMounted, lsTimers, lsTimer, lsDeps>>
    /\ UNCHANGED lmtVars
    /\ UNCHANGED ptVars

\* an effect whose cleanup clears nothing
lsCleanupMissing == lsTimers

\* the timers left by the cleanup of the effect's previous run
lsCleanup == IF lsDeps = NoDeps THEN lsTimers ELSE clearTimeout(lsTimers, lsTimer)

\* useEffect(..., [i18n.language, currentLang])
lsSyncEffect ==
    /\ lsEffectPending
    /\ currentLang' = langOf(language)
    /\ lsTimer' = newTimerId(lsCleanup)
    /\ lsTimers' = setTimeout(lsCleanup, now, SETTLE_DELAY)
    /\ storage' = language
    /\ lsDeps' = <<language, currentLang>>
    /\ UNCHANGED <<now, language, events, lsMounted, isChangingLanguage,
                   lastChangeTime, toggleCalls>>
    /\ UNCHANGED lmtVars
    /\ UNCHANGED ptVars

\* the callback of the effect's timer
lsTimerFires ==
    /\ effectsFlushed
    /\ \E tm \in lsTimers :
        /\ tm.due <= now
        /\ lsTimers' = lsTimers \ {tm}
    /\ isChangingLanguage' = IF lsMounted THEN FALSE ELSE isChangingLanguage
    /\ UNCHANGED <<globalVars, lsMounted, currentLang, lastChangeTime, lsTimer,
                   lsDeps, toggleCalls>>
    /\ UNCHANGED lmtVars
    /\ UNCHANGED ptVars

\* the cleanup of the sync effect at unmount
lsUnmount ==
    /\ lsMounted
    /\ effectsFlushed
    /\ lsMounted' = FALSE
    /\ lsTimers' = lsCleanup
    /\ UNCHANGED <<globalVars, currentLang, isChangingLanguage, lastChangeTime,
                   lsTimer, lsDeps, toggleCalls>>
    /\ UNCHANGED lmtVars
    /\ UNCHANGED ptVars

\* -------------------------------------------- LanguageMorphingTitle
\* useEffect(..., [t, translationKey]): the display pair it leaves
initEffectTexts ==
    IF ~initializedRef THEN <<t(language), t(language)>> ELSE texts

\* a duration without the minimum
getTotalAnimationDurationNoMinimum ==
    ((props.morphTime + props.cooldownTime) * 1000) \div 4 + ANIMATION_MARGIN

\* getTotalAnimationDuration()
getTotalAnimationDuration ==
    Max(((props.morphTime + props.cooldownTime) * 1000) \div 4 + ANIMATION_MARGIN,
        MIN_ANIMATION_DURATION)

\* the timers left by "Limpiar cualquier timeout anterior"
lmtCleared ==
    IF animationTimeoutRef # NoTimer
    THEN clearTimeout(lmtTimers, animationTimeoutRef)
    ELSE lmtTimers

\* an effect without its early return
changeInFlightUnchecked == FALSE

\* "Si ya estamos procesando un cambio, no hacer nada"
changeInFlight == isChangingRef

\* an old text resolved in the new locale
oldTextOfNewLocale == t(language)

\* t(translationKey, { lng: previousLanguageRef.current })
oldText == t(previousLanguageRef)

\* t(translationKey, { lng: i18n.language })
newText == t(language)

\* an effect that animates every change of locale
textsDifferAlways == TRUE

\* "Solo animar si los textos son diferentes"
textsDiffer == oldText # newText

\* an else branch that leaves the guard as line 112 set it
guardAfterEqualTextsSet == TRUE

\* "Si los textos son iguales, solo actualizamos la referencia"
guardAfterEqualTexts == FALSE

\* one flush of the title's effects: useEffect(..., [t, translationKey]),
\* then useEffect(..., [i18n.language, t, translationKey, morphTime, cooldownTime])
lmtEffects ==
    /\ lmtEffectsPending
    /\ lmtDeps' = language
    /\ initializedRef' = TRUE
    /\ IF changeInFlight
       THEN /\ texts' = initEffectTexts
            /\ UNCHANGED <<shouldMorph, previousLanguageRef, animationTimeoutRef,
                           isChangingRef, lastChangeTimeRef, lmtTimers>>
       ELSE IF previousLanguageRef # language
       THEN /\ lastChangeTimeRef' = now
            /\ previousLanguageRef' = language
            /\ IF textsDiffer
               THEN /\ isChangingRef' = TRUE
                    /\ texts' = <<oldText, newText>>
                    /\ shouldMorph' = TRUE
                    /\ animationTimeoutRef' = newTimerId(lmtCleared)
                    /\ lmtTimers' = setTimeout(lmtCleared, now, getTotalAnimationDuration)
               ELSE /\ isChangingRef' = guardAfterEqualTexts
                    /\ texts' = initEffectTexts
                    /\ UNCHANGED <<shouldMorph, animationTimeoutRef, lmtTimers>>
       ELSE /\ texts' = initEffectTexts
            /\ UNCHANGED <<shouldMorph, previousLanguageRef, animationTimeoutRef,
                           isChangingRef, lastChangeTimeRef, lmtTimers>>
    /\ UNCHANGED <<lmtMounted, props>>
    /\ UNCHANGED <<globalVars, lsVars>>
    /\ UNCHANGED ptVars

\* a final text in the locale that started the transition
finalTextOfTransition == t(previousLanguageRef)

\* const finalText = t(translationKey), in the locale of the moment
finalText == t(language)

\* the callback of the completion timer
lmtTimerFires ==
    /\ effectsFlushed
    /\ \E tm \in lmtTimers :
        /\ tm.due <= now
        /\ lmtTimers' = lmtTimers \ {tm}
    /\ isChangingRef' = FALSE
    /\ animationTimeoutRef' = NoTimer
    /\ IF lmtMounted
       THEN /\ shouldMorph' = FALSE
            /\ texts' = <<finalText, finalText>>
       ELSE UNCHANGED <<shouldMorph, texts>>
    /\ UNCHANGED <<lmtMounted, props, previousLanguageRef, initializedRef,
                   lastChangeTimeRef, lmtDeps>>
    /\ UNCHANGED <<globalVars, lsVars>>
    /\ UNCHANGED ptVars

\* an unmount that leaves the timer pending
lmtUnmountCleanupMissing == lmtTimers

\* the timers left by the cleanup at unmount
lmtUnmountCleanup ==
    IF animationTimeoutRef # NoTimer
    THEN clearTimeout(lmtTimers, animationTimeoutRef)
    ELSE lmtTimers

\* the cleanup of useEffect(..., []) at unmount
lmtUnmount ==
    /\ lmtMounted
    /\ effectsFlushed
    /\ lmtMounted' = FALSE
    /\ lmtTimers' = lmtUnmountCleanup
    /\ animationTimeoutRef' = IF animationTimeoutRef # NoTimer THEN NoTimer
                              ELSE animationTimeoutRef
    /\ UNCHANGED <<props, shouldMorph, texts, previousLanguageRef, initializedRef,
                   isChangingRef, lastChangeTimeRef, lmtDeps>>
    /\ UNCHANGED <<globalVars, lsVars>>
    /\ UNCHANGED ptVars

\* --------------------------------------------------- PageTransition
\* transition={{ duration: 0.5 }}, of the enter and of the exit animation
TRANSITION_DURATION == 500

\* AnimatePresence in its default mode: enter and exit at the same time
modeSync == "sync"

\* <AnimatePresence mode="wait">
mode == "wait"

\* a PageContainer just mounted: initial -> animate
entering(key) == [key |-> key, phase |-> "entering", due |-> now + TRANSITION_DURATION]

\* a PageContainer whose key left the tree: animate -> exit
exiting(key) == [key |-> key, phase |-> "exiting", due |-> now + TRANSITION_DURATION]

\* a PageContainer at rest
shown(key) == [key |-> key, phase |-> "shown", due |-> 0]

\* the first render: the PageContainer of the current path enters
InitPT ==
    /\ Widgets(FALSE, FALSE)
    /\ pathname \in Paths
    /\ views = {[key |-> pathname, phase |-> "entering",
                 due |-> StartTime + TRANSITION_DURATION]}

\* what AnimatePresence renders when its child is keyed by `key`: the views
\* of other keys exit; a view of this key that was exiting is kept; a new
\* view is mounted at once, or in mode "wait" when nothing is exiting
presence(rendered, key) ==
    LET kept == {IF v.key = key
                 THEN (IF v.phase = "exiting" THEN entering(key) ELSE v)
                 ELSE (IF v.phase = "exiting" THEN v ELSE exiting(v.key)) :
                 v \in rendered}
        present == \E v \in kept : v.key = key
        leaving == \E v \in kept : v.phase = "exiting"
    IN  IF present \/ (mode = "wait" /\ leaving)
        THEN kept
        ELSE kept \cup {entering(key)}

\* useLocation(): the route changes and PageTransition renders again
navigate ==
    /\ views # {}
    /\ \E q \in Paths \ {pathname} :
        /\ pathname' = q
        /\ views' = presence(views, q)
    /\ UNCHANGED <<globalVars, lsVars, lmtVars>>

\* an exit animation completes: the view is removed and the child is rendered
exitComplete ==
    /\ \E v \in views :
        /\ v.phase = "exiting"
        /\ v.due <= now
        /\ views' = presence(views \ {v}, pathname)
    /\ UNCHANGED <<globalVars, lsVars, lmtVars, pathname>>

\* an enter animation completes
enterComplete ==
    /\ \E v \in views :
        /\ v.phase = "entering"
        /\ v.due <= now
        /\ views' = (views \ {v}) \cup {shown(v.key)}
    /\ UNCHANGED <<globalVars, lsVars, lmtVars, pathname>>

\* ------------------------------------------------------ environment
\* i18n.changeLanguage(l), by a collaborator outside this repository
changeLanguage ==
    /\ effectsFlushed
    /\ \E l \in Locales \ {language} : language' = l
    /\ UNCHANGED <<now, storage, events>>
    /\ UNCHANGED <<lsVars, lmtVars>>
    /\ UNCHANGED ptVars

\* a listener of initiateLanguageChange that makes newLanguage the global
\* locale, at the moment of the event or later
languageChangeListener ==
    /\ effectsFlushed
    /\ events # <<>>
    /\ language # events[Len(events)].newLanguage
    /\ language' = events[Len(events)].newLanguage
    /\ UNCHANGED <<now, storage, events>>
    /\ UNCHANGED <<lsVars, lmtVars>>
    /\ UNCHANGED ptVars

dueTimes ==
    {tm.due : tm \in lsTimers \cup lmtTimers}
        \cup {v.due : v \in {w \in views : w.phase # "shown"}}

\* the clock advances, to the next due time at most
tick ==
    /\ now + TickMs <= MaxTime
    /\ effectsFlushed
    /\ \A d \in dueTimes : d > now
    /\ now' = SetMin({now + TickMs} \cup dueTimes)
    /\ UNCHANGED <<language, storage, events>>
    /\ UNCHANGED <<lsVars, lmtVars>>
    /\ UNCHANGED ptVars

Next ==
    \/ toggleLanguage
    \/ lsSyncEffect
    \/ lsTimerFires
    \/ lsUnmount
    \/ lmtEffects
    \/ lmtTimerFires
    \/ lmtUnmount
    \/ changeLanguage
    \/ tick

Spec == Init /\ [][Next]_vars

NextLS ==
    \/ toggleLanguage
    \/ lsSyncEffect
    \/ lsTimerFires
    \/ lsUnmount
    \/ changeLanguage
    \/ tick

SpecLS == InitLS /\ [][NextLS]_vars

NextLMT ==
    \/ lmtEffects
    \/ lmtTimerFires
    \/ lmtUnmount
    \/ changeLanguage
    \/ tick

SpecLMT == InitLMT /\ [][NextLMT]_vars

NextPT ==
    \/ navigate
    \/ exitComplete
    \/ enterComplete
    \/ tick

SpecPT == InitPT /\ [][NextPT]_vars

\* a timer set now is due within the horizon
InTime == now + SETTLE_DELAY <= MaxTime

\* the clock reaches the next due time
timerDue ==
    /\ effectsFlushed
    /\ dueTimes # {}
    /\ \A d \in dueTimes : d > now
    /\ now' = SetMin(dueTimes)
    /\ UNCHANGED <<language, storage, events>>
    /\ UNCHANGED <<lsVars, lmtVars>>
    /\ UNCHANGED ptVars

\* a selector that stays mounted: clicks and locale changes come within the
\* horizon, the clock does not stop before a pending timer is due
NextLSLive ==
    \/ (InTime /\ toggleLanguage)
    \/ (InTime /\ changeLanguage)
    \/ lsSyncEffect
    \/ lsTimerFires
    \/ tick
    \/ timerDue

\* React runs a pending effect, the browser runs a due timer, time passes
SpecLSLive ==
    /\ InitLS
    /\ [][NextLSLive]_vars
    /\ WF_vars(lsSyncEffect)
    /\ WF_vars(lsTimerFires)
    /\ SF_vars(timerDue)

\* a page at locale en with both widgets and the listener
InitPage == Init /\ language = en

NextPage ==
    \/ toggleLanguage
    \/ lsSyncEffect
    \/ lsTimerFires
    \/ lmtEffects
    \/ lmtTimerFires
    \/ languageChangeListener
    \/ tick

SpecPage == InitPage /\ [][NextPage]_vars

\* =========================================================== claims
\* a step that is an invocation of toggleLanguage
ToggleStep == toggleCalls' # toggleCalls

\* a step in which the selector's sync effect runs
SyncEffectStep == lsDeps' # lsDeps

\* C1: a toggle invoked less than 3000 ms after the last accepted toggle
\* changes none of currentLang, isChangingLanguage, lastChangeTime and
\* dispatches no event; so an accepted toggle comes at least 3000 ms after
\* the accepted toggle before it, whose time lastChangeTime holds.
C1_CooldownNoOp ==
    [][/\ (ToggleStep /\ now - lastChangeTime < LANGUAGE_CHANGE_COOLDOWN)
            => UNCHANGED <<currentLang, isChangingLanguage, lastChangeTime, events>>
       /\ (events' # events)
            => /\ ToggleStep
               /\ now - lastChangeTime >= LANGUAGE_CHANGE_COOLDOWN
               /\ lastChangeTime' = now
       /\ (lastChangeTime' # lastChangeTime) => events' # events]_vars

\* C1 witness: 500 ms after the one accepted toggle, settled or not, a
\* second invocation has been made and one event only was dispatched.
C1_Witness ==
    /\ Len(events) = 1
    /\ toggleCalls = 0
    /\ now - lastChangeTime = 500
    /\ currentLang = events[1].newLanguage

\* C2: a toggle invoked while isChangingLanguage is true changes none of
\* currentLang, isChangingLanguage, lastChangeTime and dispatches no
\* event, however long ago the last accepted toggle was.
C2_ChangingNoOp ==
    [][(ToggleStep /\ isChangingLanguage)
         => UNCHANGED <<currentLang, isChangingLanguage, lastChangeTime, events>>]_vars

\* C2 witness: the selector is still changing 3000 ms or more after the
\* accepted toggle, a second invocation was made, one event was dispatched.
C2_Witness ==
    /\ isChangingLanguage
    /\ now - lastChangeTime >= LANGUAGE_CHANGE_COOLDOWN
    /\ Len(events) = 1
    /\ toggleCalls = 0
    /\ ~lsEffectPending

\* C3: a toggle invoked while isChangingLanguage is false and 3000 ms or
\* more after lastChangeTime sets isChangingLanguage, sets lastChangeTime to
\* now, shows the other language of {en, es} and dispatches exactly one
\* event, from the language shown before to the other one.
C3_AcceptedToggle ==
    [][(ToggleStep /\ ~isChangingLanguage
            /\ now - lastChangeTime >= LANGUAGE_CHANGE_COOLDOWN)
         => /\ isChangingLanguage'
            /\ lastChangeTime' = now
            /\ currentLang \in {en, es}
            /\ currentLang' \in {en, es} \ {currentLang}
            /\ Len(events') = Len(events) + 1
            /\ SubSeq(events', 1, Len(events)) = events
            /\ events'[Len(events')].previousLanguage = currentLang
            /\ events'[Len(events')].newLanguage = currentLang'
            /\ events'[Len(events')].previousLanguage
                 # events'[Len(events')].newLanguage]_vars

\* C3 witness: a second toggle was accepted, from es back to en.
C3_Witness ==
    /\ Len(events) = 2
    /\ events[2] = [previousLanguage |-> es, newLanguage |-> en]
    /\ currentLang = en
    /\ isChangingLanguage
    /\ lastChangeTime = now
\* the selector's timers are due SETTLE_DELAY after the effect's run at most
SettleTimerStep ==
    /\ lsMounted'
    /\ ~SyncEffectStep
    /\ lsTimers' # lsTimers

\* C10: once the sync effect has run for a change of the global locale,
\* localStorage holds the new locale; the run leaves one settle timer, due
\* 1000 ms after it; the clock does not pass a pending timer, and when the
\* timer fires, the effect not having run again, isChangingLanguage
\* becomes false and stays so until a toggle is accepted.
C10_SyncEffect ==
    /\ [](lsMounted /\ ~lsEffectPending =>
            /\ storage = language
            /\ \A tm \in lsTimers : now <= tm.due /\ tm.due <= now + SETTLE_DELAY
            /\ lsTimers = {} => ~isChangingLanguage)
    /\ [][/\ SyncEffectStep =>
               /\ storage' = language
               /\ lsTimers' = {[id |-> lsTimer', due |-> now + SETTLE_DELAY]}
          /\ (lsMounted /\ language' # language) =>
               lsEffectPending' \/ storage' = language'
          /\ SettleTimerStep =>
               /\ \E tm \in lsTimers : tm.due = now /\ lsTimers' = lsTimers \ {tm}
               /\ ~isChangingLanguage']_vars

\* C10 witness: a toggle was accepted, the locale changed to es at that
\* moment, and 1000 ms later the selector is no longer changing.
C10_Witness ==
    /\ lsMounted
    /\ events = <<[previousLanguage |-> en, newLanguage |-> es]>>
    /\ language = es
    /\ storage = es
    /\ ~lsEffectPending
    /\ lsTimers = {}
    /\ ~isChangingLanguage
    /\ now = lastChangeTime + SETTLE_DELAY

\* a step in which the title's language-change effect runs
ChangeEffectStep == lmtDeps' # lmtDeps

\* a step in which the completion timer of a mounted title fires
CompletionStep ==
    /\ lmtMounted'
    /\ lmtTimers' # lmtTimers
    /\ lmtTimers' \subseteq lmtTimers

\* (morphTime + cooldownTime) * 1000 + 500 and 2500, whichever is larger
ExpectedDuration ==
    LET calculated == (props.morphTime + props.cooldownTime) * 250 + 500
    IN  IF calculated > 2500 THEN calculated ELSE 2500

\* C4: the change effect, run with no transition in flight for a locale
\* that differs from the last-seen one but resolves to the same text,
\* leaves shouldMorph false, schedules no timer, leaves the guard idle and
\* makes the locale the last-seen one.
C4_EqualTextNoMorph ==
    [][(/\ ChangeEffectStep
        /\ ~isChangingRef
        /\ previousLanguageRef # language
        /\ Catalog[previousLanguageRef] = Catalog[language])
         => /\ ~shouldMorph
            /\ ~shouldMorph'
            /\ lmtTimers' = {}
            /\ animationTimeoutRef' = NoTimer
            /\ ~isChangingRef'
            /\ (initializedRef => texts' = texts)
            /\ previousLanguageRef' = language]_vars

\* C4 witness: the change from es to es-MX was detected at this moment and
\* the title is idle, showing the one text of both locales.
C4_Witness ==
    /\ lmtMounted
    /\ lmtDeps = esMX
    /\ language = esMX
    /\ previousLanguageRef = esMX
    /\ lastChangeTimeRef = now
    /\ ~shouldMorph
    /\ ~isChangingRef
    /\ lmtTimers = {}
    /\ texts = <<"Hola", "Hola">>

\* C5: the change effect, run with no transition in flight for a locale
\* whose text differs from the text of the last-seen one, enters Morphing
\* with the pair (text of the last-seen locale, text of the new locale) and
\* one timer due ExpectedDuration later; a mounted title leaves Morphing
\* exactly ExpectedDuration after it entered, which is 2500 ms or more.
C5_MorphDuration ==
    [][/\ (/\ ChangeEffectStep
           /\ ~isChangingRef
           /\ previousLanguageRef # language
           /\ Catalog[previousLanguageRef] # Catalog[language])
            => /\ shouldMorph'
               /\ isChangingRef'
               /\ texts' = <<Catalog[previousLanguageRef], Catalog[language]>>
               /\ lmtTimers' = {[id |-> animationTimeoutRef',
                                 due |-> now + ExpectedDuration]}
       /\ (lmtMounted /\ shouldMorph) =>
               now' - lastChangeTimeRef <= ExpectedDuration
       /\ (shouldMorph /\ ~shouldMorph') =>
               /\ now - lastChangeTimeRef = ExpectedDuration
               /\ now - lastChangeTimeRef >= MIN_ANIMATION_DURATION]_vars

\* C5 witness: a title whose computed duration is 3000 ms is Morphing from
\* Hello to Hola, 3000 ms after it entered, its timer due now.
C5_Witness ==
    /\ lmtMounted
    /\ props.morphTime = 8
    /\ shouldMorph
    /\ isChangingRef
    /\ texts = <<"Hello", "Hola">>
    /\ now = lastChangeTimeRef + 3000
    /\ \E tm \in lmtTimers : tm.due = now

\* C6: when the completion timer of a mounted title fires, shouldMorph
\* becomes false, the guard and the timer reference are cleared and both
\* slots hold the text of the global locale of that moment.
C6_Completion ==
    [][CompletionStep
         => /\ ~shouldMorph'
            /\ ~isChangingRef'
            /\ animationTimeoutRef' = NoTimer
            /\ texts' = <<Catalog[language], Catalog[language]>>]_vars

\* C6 witness: the transition to es has completed after the locale went
\* back to en during it; the title is idle and both slots hold Hello.
C6_Witness ==
    /\ lmtMounted
    /\ previousLanguageRef = es
    /\ language = en
    /\ lmtDeps = en
    /\ ~isChangingRef
    /\ ~shouldMorph
    /\ lmtTimers = {}
    /\ texts = <<"Hello", "Hello">>
    /\ now - lastChangeTimeRef = ExpectedDuration

\* C7: in every state of a mounted, initialised title with no transition
\* in flight and no effect left to run, both slots of the display pair
\* hold the text of the global locale.
C7_IdleShowsCurrentLocale ==
    (/\ lmtMounted
     /\ initializedRef
     /\ ~isChangingRef
     /\ ~lmtEffectsPending)
      => texts = <<Catalog[language], Catalog[language]>>

\* C8: the change effect, run while a transition is in flight, leaves the
\* display pair, shouldMorph, the pending timer, the guard and the
\* last-seen locale as they are; no step leaves two timers pending.
C8_InFlightIgnored ==
    [][/\ (ChangeEffectStep /\ isChangingRef)
            => UNCHANGED <<texts, shouldMorph, lmtTimers, animationTimeoutRef,
                           isChangingRef, previousLanguageRef>>
       /\ Cardinality(lmtTimers') <= 1]_vars

\* C8 witness: the effect has run for a locale that changed during the
\* transition from en to es, and the last-seen locale is still es.
C8_Witness ==
    /\ lmtMounted
    /\ isChangingRef
    /\ shouldMorph
    /\ texts = <<"Hello", "Hola">>
    /\ previousLanguageRef = es
    /\ language = fr
    /\ lmtDeps = fr
    /\ Cardinality(lmtTimers) = 1

\* C9: the unmount leaves no timer pending, and no step after it changes
\* the title's state, refs or timers.
C9_UnmountCancels ==
    [][/\ (lmtMounted /\ ~lmtMounted') => lmtTimers' = {}
       /\ ~lmtMounted => UNCHANGED lmtVars]_vars

\* C9 witness: the title was unmounted while Morphing and the time its
\* timer was due has passed, the guard and the display pair untouched.
C9_Witness ==
    /\ ~lmtMounted
    /\ shouldMorph
    /\ isChangingRef
    /\ texts = <<"Hello", "Hola">>
    /\ lmtTimers = {}
    /\ now > lastChangeTimeRef + ExpectedDuration
\* a step in which a toggle is accepted
AcceptedToggleStep == Len(events') = Len(events) + 1

\* C11 as claimed: an accepted toggle makes the new language the global
\* locale.
C11_ToggleWritesLocale ==
    [][AcceptedToggleStep => language' = events'[Len(events')].newLanguage]_vars

\* C11 as amended: an accepted toggle leaves the global locale and the
\* title as they are and gives the title no effect to run; the global
\* locale changes in steps of a listener only.
C11_ToggleLeavesLocale ==
    [][/\ AcceptedToggleStep =>
            /\ language' = language
            /\ language' # events'[Len(events')].newLanguage
            /\ UNCHANGED lmtVars
            /\ ~lmtEffectsPending'
       /\ (language' # language) => UNCHANGED <<lsVars, lmtVars, events>>]_vars

\* C11 witness: a toggle to es was accepted at this moment, the global
\* locale is en and the title shows Hello, idle.
C11_Witness ==
    /\ events = <<[previousLanguage |-> en, newLanguage |-> es]>>
    /\ lastChangeTime = now
    /\ isChangingLanguage
    /\ currentLang = es
    /\ language = en
    /\ texts = <<"Hello", "Hello">>
    /\ ~shouldMorph
    /\ ~isChangingRef
C13_ExitBeforeEnter ==
    /\ [](Cardinality(views) <= 1)
    /\ [][\A n \in views' :
            (\A v \in views : v.key # n.key) =>
                /\ n.key = pathname'
                /\ n.phase = "entering"
                /\ n.due = now + TRANSITION_DURATION
                /\ views' = {n}
                /\ \A v \in views : v.phase = "exiting" /\ v.due <= now]_vars

\* C13 witness: the route went from /a to /b 500 ms ago; the view of /a is
\* gone and the view of /b enters, at this moment.
C13_Witness ==
    /\ pathname = "/b"
    /\ views = {[key |-> "/b", phase |-> "entering",
                 due |-> now + TRANSITION_DURATION]}
    /\ now = StartTime + TRANSITION_DURATION

\* C14: in every state the selector has at most one settle timer pending and
\* the title at most one completion timer; the selector schedules a timer
\* only in a step that leaves no earlier one, the title only when none is
\* pending.
C14_OnePendingTimer ==
    /\ [](Cardinality(lsTimers) <= 1 /\ Cardinality(lmtTimers) <= 1)
    /\ [][/\ \A n \in lsTimers' \ lsTimers : lsTimers' = {n}
          /\ (lmtTimers' \ lmtTimers # {}) => lmtTimers = {}]_vars

\* C14 witness: the sync effect ran again 500 ms after its previous run,
\* whose timer was still pending, and one settle timer is pending, due
\* 1000 ms from now, while the title's completion timer is pending too.
C14_Witness ==
    /\ lsTimers = {[id |-> 1, due |-> now + SETTLE_DELAY]}
    /\ lastChangeTime = now - TickMs
    /\ Cardinality(lmtTimers) = 1
    /\ isChangingRef

\* C15: whenever a mounted selector is changing, it is eventually not
\* changing any more, whether or not the global locale ever changes.
C15_EventuallyEnabled ==
    (lsMounted /\ isChangingLanguage) ~> ~isChangingLanguage

\* C15 witness: a toggle was accepted, the global locale never became the new
\* language, and 1000 ms later the selector is enabled again, showing en.
C15_Witness ==
    /\ lsMounted
    /\ events = <<[previousLanguage |-> en, newLanguage |-> es]>>
    /\ language = en
    /\ storage = en
    /\ currentLang = en
    /\ ~isChangingLanguage
    /\ lsTimers = {}
    /\ now = lastChangeTime + SETTLE_DELAY

\* the language a selector at rest shows for a global locale
ShownFor(l) == IF l \in {es, esMX} THEN es ELSE en

\* C16: currentLang is always en or es; a mounted selector whose sync effect
\* has nothing left to run shows es if the global locale starts with "es"
\* and en otherwise; every run of the sync effect sets currentLang so, which
\* undoes the flip of an accepted toggle that the global locale did not
\* follow.
C16_ShowsLocale ==
    /\ [](/\ currentLang \in {en, es}
          /\ (lsMounted /\ ~lsEffectPending) =>
                currentLang = ShownFor(language))
    /\ [][SyncEffectStep => currentLang' = ShownFor(language)]_vars

\* C16 witness: a toggle from en to es was accepted and the global locale
\* stayed en; the sync effect has run and the selector, still changing,
\* shows en again.
C16_Witness ==
    /\ lsMounted
    /\ events = <<[previousLanguage |-> en, newLanguage |-> es]>>
    /\ language = en
    /\ currentLang = en
    /\ ~lsEffectPending
    /\ isChangingLanguage
    /\ lastChangeTime = now

\* C17: in every state of a mounted title the guard isChangingRef is true
\* exactly when a completion timer is pending and exactly when shouldMorph
\* is true; while the guard is true the timer the title holds is pending.
C17_GuardTimerMorph ==
    lmtMounted =>
        /\ isChangingRef <=> (lmtTimers # {})
        /\ isChangingRef <=> shouldMorph
        /\ isChangingRef =>
              lmtTimers = {[id |-> animationTimeoutRef,
                            due |-> lastChangeTimeRef + ExpectedDuration]}

\* C17 witness: the title has this moment begun to morph from Hola to
\* Bonjour; the guard is set and its one timer is pending.
C17_Witness ==
    /\ lmtMounted
    /\ language = fr
    /\ previousLanguageRef = fr
    /\ texts = <<"Hola", "Bonjour">>
    /\ isChangingRef
    /\ shouldMorph
    /\ lastChangeTimeRef = now
    /\ lmtTimers = {[id |-> animationTimeoutRef, due |-> now + ExpectedDuration]}

====
